---- MODULE Spec2Model ----
(***************************************************************************)
(* A model of the gm_txt synchronisation engine (src/main.go) together     *)
(* with the object-file translators of src/unnamed/part_000.               *)
(*                                                                         *)
(* Time is counted in ticks of 100ms and measured from the present: now is  *)
(* 0, a recorded time is 0 or negative, and a tick moves every recorded    *)
(* time one tick into the past.  All the program does with a recorded time *)
(* is compare its age with reverbSpacing and dedupSpacing, so a time more  *)
(* than reverbSpacing in the past is recorded as Old.                      *)
(*                                                                         *)
(* A file name such as "Enemy.object.gmx" is the sequence of its           *)
(* dot-separated parts <<"Enemy", "object", "gmx">>, and a path is a       *)
(* directory with a file name.                                             *)
(***************************************************************************)
EXTENDS Integers, Sequences, FiniteSets, TLC

\* ------------------------------------------------------------ bounds
MaxEdits == 1
MaxQueue == 2

\* --------------------------------------------------- program constants
\* const reverbSpacing = 1 * time.Second, in ticks of 100ms
reverbSpacing == 10
\* const dedupSpacing = 100 * time.Millisecond, in ticks of 100ms
dedupSpacing == 1
\* time.Now()
now == 0

\* any time more than reverbSpacing ago
Old == now - (reverbSpacing + 1)

\* the zero time.Time of gmChanged and humanChanged: long before the start
ZeroTime == Old

\* a recorded time, one tick later
Shift(t) == IF t = Old THEN Old ELSE t - 1

humanDir == "gm_txt"
gmObjectsDir == "objects"
gmScriptsDir == "scripts"

WatchedRoots == {humanDir, gmObjectsDir, gmScriptsDir}

\* ------------------------------------------------------------- paths
Join(dir, name) == [dir |-> dir, name |-> name]

Base(path) == path.name

HasPrefix(path, dir) == path.dir = dir

\* filepath.Ext without its dot: the part after the last dot, "" if none
Ext(path) == IF Len(path.name) > 1 THEN path.name[Len(path.name)] ELSE ""

\* strings.Split(fn, ".")[0]
SplitFirst(fn) == <<fn[1]>>

\* strings.HasSuffix(path, ".object.gmx")
HasObjectSuffix(path) ==
    LET n == Len(path.name)
    IN  n > 2 /\ path.name[n - 1] = "object" /\ path.name[n] = "gmx"

\* strings.TrimSuffix(filepath.Base(path), ".object.gmx")
TrimObjectSuffix(fn) ==
    IF HasObjectSuffix([dir |-> "", name |-> fn])
    THEN SubSeq(fn, 1, Len(fn) - 2)
    ELSE fn

\* the value of lastGMFileChanged and lastHumanFileChanged at startup: ""
NoPath == [dir |-> "", name |-> <<>>]

EnemyGmo == Join(humanDir, <<"Enemy", "gmo">>)
BossGmo == Join(humanDir, <<"Boss", "gmo">>)
NotesTxt == Join(humanDir, <<"notes", "txt">>)
HumanFooGml == Join(humanDir, <<"foo", "gml">>)
HumanBarGml == Join(humanDir, <<"bar", "gml">>)
EnemyGmx == Join(gmObjectsDir, <<"Enemy", "object", "gmx">>)
BossGmx == Join(gmObjectsDir, <<"Boss", "object", "gmx">>)
ReadmeTxt == Join(gmObjectsDir, <<"readme", "txt">>)
GMFooGml == Join(gmScriptsDir, <<"foo", "gml">>)
GMBarGml == Join(gmScriptsDir, <<"bar", "gml">>)

Paths == {EnemyGmo, BossGmo, NotesTxt, HumanFooGml, HumanBarGml,
          EnemyGmx, BossGmx, ReadmeTxt, GMFooGml, GMBarGml}

\* -------------------------------------------------------- file contents
Docs == {1, 2}

Absent == [fmt |-> "none", doc |-> 0]
Empty == [fmt |-> "empty", doc |-> 0]
Garbage == [fmt |-> "bad", doc |-> 0]
Xml(d) == [fmt |-> "xml", doc |-> d]
Txt(d) == [fmt |-> "txt", doc |-> d]
Gml(d) == [fmt |-> "gml", doc |-> d]

Exists(fs, path) == fs[path] # Absent

\* xml.Decoder.Decode into a GMObject
DecodeOk(content) == content.fmt = "xml"

\* ReadHumanObject: the mirror grammar parses
ParseOk(content) == content.fmt = "txt"

\* WriteHumanObject: the mirror text of a native object
NativeToMirror(obj) == Txt(obj.doc)

\* ReadHumanObject onto the decoded base object, then xml.Encoder.Encode
MirrorToNative(text, base) == Xml(text.doc)

\* how the file system answers os.Create: it works or it fails
IOOutcomes == {"ok", "create"}

NoError == "nil"

Result(err, fs, wrote) == [err |-> err, fs |-> fs, wrote |-> wrote]

\* ------------------------------------------------------ file translators
GMObjectFileToHumanObjectFile(fs, objFilename, humanFilename, io, dirOk) ==
    IF ~Exists(fs, objFilename) THEN Result("open", fs, {})
    ELSE IF ~DecodeOk(fs[objFilename]) THEN Result("decode", fs, {})
    ELSE IF io = "create" \/ ~dirOk THEN Result("create", fs, {})
    ELSE Result(NoError,
                [fs EXCEPT ![humanFilename] = NativeToMirror(fs[objFilename])],
                {humanFilename})

\* a translator that creates the native file before it parses the mirror
HumanObjectFileToGMObjectFileCreateFirst(fs, humanFilename, objFilename, io) ==
    IF ~Exists(fs, objFilename) THEN Result("open", fs, {})
    ELSE IF ~DecodeOk(fs[objFilename]) THEN Result("decode", fs, {})
    ELSE IF ~Exists(fs, humanFilename) THEN Result("open", fs, {})
    ELSE IF io = "create" THEN Result("create", fs, {})
    ELSE IF ~ParseOk(fs[humanFilename])
    THEN Result("parse", [fs EXCEPT ![objFilename] = Empty], {})
    ELSE Result(NoError,
                [fs EXCEPT ![objFilename] =
                     MirrorToNative(fs[humanFilename], fs[objFilename])],
                {objFilename})

HumanObjectFileToGMObjectFile(fs, humanFilename, objFilename, io) ==
    IF ~Exists(fs, objFilename) THEN Result("open", fs, {})
    ELSE IF ~DecodeOk(fs[objFilename]) THEN Result("decode", fs, {})
    ELSE IF ~Exists(fs, humanFilename) THEN Result("open", fs, {})
    ELSE IF ~ParseOk(fs[humanFilename]) THEN Result("parse", fs, {})
    ELSE IF io = "create" THEN Result("create", fs, {})
    ELSE Result(NoError,
                [fs EXCEPT ![objFilename] =
                     MirrorToNative(fs[humanFilename], fs[objFilename])],
                {objFilename})

\* cp(dst, src): a byte-for-byte copy
cp(fs, dst, src, io, dirOk) ==
    IF ~Exists(fs, src) THEN Result("open", fs, {})
    ELSE IF io = "create" \/ ~dirOk THEN Result("create", fs, {})
    ELSE Result(NoError, [fs EXCEPT ![dst] = fs[src]], {dst})

\* -------------------------------------------------------------- manifest
Entry(name, kind) == [name |-> name, kind |-> kind]

HasEntry(entries, name) == \E i \in 1..Len(entries) : entries[i].name = name

\* AppendManifestEntry on the project file: the entry goes to the end of the
\* group, nothing changes when the group already names it, and a missing
\* group is an error
AppendResourceToGMProject(mf, name, kind, group) ==
    IF group \notin DOMAIN mf THEN [err |-> "group", mf |-> mf]
    ELSE IF HasEntry(mf[group], name) THEN [err |-> NoError, mf |-> mf]
    ELSE [err |-> NoError,
          mf |-> [mf EXCEPT ![group] = Append(@, Entry(name, kind))]]

\* ------------------------------------------------------------------ log
Line(msg, err) == [msg |-> msg, err |-> err]

\* ---------------------------------------------- the four event handlers
\* Each takes the files, the manifest and the log and gives them back with
\* the set of paths it wrote.
Outcome(fs, mf, lg, wrote) ==
    [fs |-> fs, mf |-> mf, log |-> lg, wrote |-> wrote]

copyHumanScript(fs, mf, lg, humanScriptPath, io) ==
    LET fn == Base(humanScriptPath)
        gmScriptPath == Join(gmScriptsDir, fn)
        gmFileExisted == Exists(fs, gmScriptPath)
        r == cp(fs, gmScriptPath, humanScriptPath, io, TRUE)
        lg1 == Append(lg, IF r.err # NoError THEN Line("error", r.err)
                          ELSE Line("Copied", NoError))
        a == AppendResourceToGMProject(mf, fn, "script", "scripts")
    IN  IF gmFileExisted THEN Outcome(r.fs, mf, lg1, r.wrote)
        ELSE Outcome(r.fs, a.mf,
                     Append(lg1, IF a.err # NoError THEN Line("error", a.err)
                                 ELSE Line("Project file updated", NoError)),
                     r.wrote)

copyGMScript(fs, mf, lg, gmScriptPath, io, dirOk) ==
    LET fn == Base(gmScriptPath)
        humanScriptPath == Join(humanDir, fn)
        r == cp(fs, humanScriptPath, gmScriptPath, io, dirOk)
    IN  Outcome(r.fs, mf,
                Append(lg, IF r.err # NoError
                           THEN Line("(From GM) error", r.err)
                           ELSE Line("(From GM) Copied", NoError)),
                r.wrote)

\* the native path translateHumanObject derives for a mirror object
GMObjPathOf(humanObjPath) ==
    Join(gmObjectsDir, SplitFirst(Base(humanObjPath)) \o <<"object", "gmx">>)

\* the mirror path translateGMObject derives for a native object
HumanObjPathOf(gmObjPath) ==
    Join(humanDir, SplitFirst(Base(gmObjPath)) \o <<"gmo">>)

\* a handler that updates the project file whether or not the GM file existed
translateHumanObjectAlwaysAppending(fs, mf, lg, humanObjPath, io) ==
    LET objName == SplitFirst(Base(humanObjPath))
        gmObjPath == GMObjPathOf(humanObjPath)
        r == HumanObjectFileToGMObjectFile(fs, humanObjPath, gmObjPath, io)
        lg1 == Append(lg, IF r.err # NoError THEN Line("error", r.err)
                          ELSE Line("Translated", NoError))
        a == AppendResourceToGMProject(mf, objName, "object", "objects")
    IN  Outcome(r.fs, a.mf,
                Append(lg1, IF a.err # NoError THEN Line("error", a.err)
                            ELSE Line("Project file updated", NoError)),
                r.wrote)

translateHumanObject(fs, mf, lg, humanObjPath, io) ==
    LET objName == SplitFirst(Base(humanObjPath))
        gmObjPath == GMObjPathOf(humanObjPath)
        gmObjFileExisted == Exists(fs, gmObjPath)
        r == HumanObjectFileToGMObjectFile(fs, humanObjPath, gmObjPath, io)
        lg1 == Append(lg, IF r.err # NoError THEN Line("error", r.err)
                          ELSE Line("Translated", NoError))
        a == AppendResourceToGMProject(mf, objName, "object", "objects")
    IN  IF gmObjFileExisted THEN Outcome(r.fs, mf, lg1, r.wrote)
        ELSE Outcome(r.fs, a.mf,
                     Append(lg1, IF a.err # NoError THEN Line("error", a.err)
                                 ELSE Line("Project file updated", NoError)),
                     r.wrote)

translateGMObject(fs, mf, lg, gmObjPath, io, dirOk) ==
    LET humanObjPath == HumanObjPathOf(gmObjPath)
        r == GMObjectFileToHumanObjectFile(fs, gmObjPath, humanObjPath, io,
                                           dirOk)
    IN  Outcome(r.fs, mf,
                Append(lg, IF r.err # NoError
                           THEN Line("(From GM) error", r.err)
                           ELSE Line("(From GM) Translated", NoError)),
                r.wrote)

\* ------------------------------------------------------------- state
VARIABLES
    gmChanged,              \* var gmChanged time.Time
    humanChanged,           \* var humanChanged time.Time
    lastGMFileChanged,      \* var lastGMFileChanged string
    lastHumanFileChanged,   \* var lastHumanFileChanged string
    files,                  \* the content of every path
    humanDirMade,           \* whether the gm_txt directory exists
    manifest,               \* the project file: group -> entries
    log,                    \* the lines printed by the step that printed last
    queue,                  \* watcher.Events: notifications not yet received
    watcher,                \* "none", "open" or "closed"
    watched,                \* the directories added to the watcher
    mainpc,                 \* where main() is
    dispatcher,             \* the goroutine of the select loop
    running,                \* the handlers that passed the timing check and
                            \* have not returned yet
    edits,                  \* what the outside has done so far: writes, other
                            \* operations, watcher errors
    touched,                \* history: the goroutines that used SyncState
    last,                   \* history: the event received last, and its fate
    late                    \* history: an engine-caused notification was
                            \* received more than reverbSpacing after its write

sync == <<gmChanged, lastGMFileChanged, humanChanged, lastHumanFileChanged>>

history == <<touched, last, late>>

vars == <<sync, files, humanDirMade, manifest, log, queue, watcher,
          watched, mainpc, dispatcher, running, edits, history>>

\* a notification: fsnotify's Name and Op, and for the history who caused it
\* ("ext": the outside, "eng": a write of the engine), when the engine's
\* write happened, and whether it repeats the notification emitted just
\* before it
Event(path, op, origin, at, twin) ==
    [name |-> path, op |-> op, origin |-> origin, at |-> at, twin |-> twin]

Alive == mainpc # "returned"

\* fsnotify delivers what happens in a directory added to an open watcher;
\* a notification that finds the buffer full is lost
Notify(q, path, op, origin, twin) ==
    IF watcher = "open" /\ path.dir \in watched /\ Len(q) < MaxQueue
    THEN Append(q, Event(path, op, origin,
                         IF origin = "eng" THEN now ELSE Old, twin))
    ELSE q

NotifyWrites(q, wrote) ==
    IF wrote = {} THEN q
    ELSE Notify(q, CHOOSE p \in wrote : TRUE, {"Write"}, "eng", FALSE)

\* ------------------------------------------------------ timing checks
Since(t) == now - t

\* a check that lets an event through at exactly reverbSpacing and at
\* exactly dedupSpacing
humanFileTimingOkAtBoundary(humanFile) ==
    /\ Since(gmChanged) >= reverbSpacing
    /\ \/ lastHumanFileChanged # humanFile
       \/ Since(humanChanged) >= dedupSpacing

humanFileTimingOk(humanFile) ==
    /\ Since(gmChanged) > reverbSpacing
    /\ \/ lastHumanFileChanged # humanFile
       \/ Since(humanChanged) > dedupSpacing

gmFileTimingOk(gmFile) ==
    /\ Since(humanChanged) > reverbSpacing
    /\ \/ lastGMFileChanged # gmFile
       \/ Since(gmChanged) > dedupSpacing

\* ------------------------------------------------------ classification
\* a test of the operation that lets creations through as well
IsWriteOrCreate(ev) == ev.op \in {{"Write"}, {"Create"}}

IsWrite(ev) == ev.op = {"Write"}

isHuman(ev) == HasPrefix(ev.name, humanDir)

\* a test of the path that does not look at the extension
isHumanObjAnyExt(ev) == isHuman(ev)

isHumanObj(ev) == isHuman(ev) /\ Ext(ev.name) = "gmo"

isHumanScript(ev) == isHuman(ev) /\ Ext(ev.name) = "gml"

isGMObj(ev) == HasPrefix(ev.name, gmObjectsDir) /\ Ext(ev.name) = "gmx"

isGMScript(ev) == HasPrefix(ev.name, gmScriptsDir) /\ Ext(ev.name) = "gml"

\* the handler processWatcherEvent picks for an event, "" when it picks none
Handler(ev) ==
    IF ~IsWrite(ev) THEN ""
    ELSE IF isHumanObj(ev) THEN "translateHumanObject"
    ELSE IF isHumanScript(ev) THEN "copyHumanScript"
    ELSE IF isGMObj(ev) THEN "translateGMObject"
    ELSE IF isGMScript(ev) THEN "copyGMScript"
    ELSE ""

HumanHandlers == {"translateHumanObject", "copyHumanScript"}

GMHandlers == {"translateGMObject", "copyGMScript"}

TimingOk(ev) ==
    IF Handler(ev) \in HumanHandlers THEN humanFileTimingOk(ev.name)
    ELSE gmFileTimingOk(ev.name)

\* the event passes: a handler is picked and its timing check says yes
Passes(ev) == Handler(ev) # "" /\ TimingOk(ev)

Call(kind, path) == [kind |-> kind, name |-> path]

\* ------------------------------------------------- the dispatch goroutine
\* a processWatcherEvent that records the event before its timing check
processWatcherEventStampingFirst(ev) ==
    IF Handler(ev) = "" THEN UNCHANGED <<sync, running, touched>>
    ELSE /\ touched' = touched \cup {"dispatch"}
         /\ running' = IF TimingOk(ev)
                       THEN Append(running, Call(Handler(ev), ev.name))
                       ELSE running
         /\ IF Handler(ev) \in HumanHandlers
            THEN /\ humanChanged' = now
                 /\ lastHumanFileChanged' = ev.name
                 /\ UNCHANGED <<gmChanged, lastGMFileChanged>>
            ELSE /\ gmChanged' = now
                 /\ lastGMFileChanged' = ev.name
                 /\ UNCHANGED <<humanChanged, lastHumanFileChanged>>

\* processWatcherEvent up to the call of the handler it picks
processWatcherEvent(ev) ==
    IF Handler(ev) = "" THEN UNCHANGED <<sync, running, touched>>
    ELSE /\ touched' = touched \cup {"dispatch"}
         /\ IF ~TimingOk(ev) THEN UNCHANGED <<sync, running>>
            ELSE /\ running' =
                        Append(running, Call(Handler(ev), ev.name))
                 /\ IF Handler(ev) \in HumanHandlers
                    THEN /\ humanChanged' = now
                         /\ lastHumanFileChanged' = ev.name
                         /\ UNCHANGED <<gmChanged, lastGMFileChanged>>
                    ELSE /\ gmChanged' = now
                         /\ lastGMFileChanged' = ev.name
                         /\ UNCHANGED <<humanChanged, lastHumanFileChanged>>

\* a loop that starts a goroutine for each event is at its select at once
LoopReadyGo == TRUE

\* the loop is back at its select only when processWatcherEvent has returned
LoopReady == running = <<>>

\* case event := <-watcher.Events
Dispatch ==
    /\ Alive /\ dispatcher = "running" /\ LoopReady
    /\ queue # <<>>
    /\ queue' = Tail(queue)
    /\ processWatcherEvent(Head(queue))
    /\ last' = [name |-> Head(queue).name, op |-> Head(queue).op,
                origin |-> Head(queue).origin,
                passed |-> Passes(Head(queue))]
    /\ late' = (late \/ (Head(queue).origin = "eng"
                         /\ now - Head(queue).at > reverbSpacing))
    /\ UNCHANGED <<files, humanDirMade, manifest, log, watcher, watched,
                   mainpc, dispatcher, edits>>

\* case err := <-watcher.Errors
WatcherError ==
    /\ Alive /\ dispatcher = "running" /\ LoopReady
    /\ watcher = "open"
    /\ edits < MaxEdits
    /\ edits' = edits + 1
    /\ log' = <<Line("Fsnotify watcher error", "watcher")>>
    /\ UNCHANGED <<sync, files, humanDirMade, manifest, queue, watcher,
                   watched, mainpc, dispatcher, running, history>>

RunHandler(call, io) ==
    IF call.kind = "translateHumanObject"
    THEN translateHumanObject(files, manifest, <<>>, call.name, io)
    ELSE IF call.kind = "copyHumanScript"
    THEN copyHumanScript(files, manifest, <<>>, call.name, io)
    ELSE IF call.kind = "translateGMObject"
    THEN translateGMObject(files, manifest, <<>>, call.name, io, humanDirMade)
    ELSE copyGMScript(files, manifest, <<>>, call.name, io, humanDirMade)

RemoveAt(seq, i) == SubSeq(seq, 1, i - 1) \o SubSeq(seq, i + 1, Len(seq))

\* a handler that does not return after an error but stays to try again
TranslateRetrying(i, io) ==
    /\ Alive
    /\ i \in 1..Len(running)
    /\ LET call == running[i]
           out == RunHandler(call, io)
       IN  /\ files' = out.fs
           /\ manifest' = out.mf
           /\ log' = out.log
           /\ queue' = NotifyWrites(queue, out.wrote)
           /\ running' = IF out.log[1].err = NoError
                         THEN RemoveAt(running, i) ELSE running
    /\ UNCHANGED <<sync, humanDirMade, watcher, watched, mainpc,
                   dispatcher, edits, touched, last, late>>

\* the handler called by processWatcherEvent does its work and returns
Translate(i, io) ==
    /\ Alive
    /\ i \in 1..Len(running)
    /\ LET call == running[i]
           out == RunHandler(call, io)
       IN  /\ files' = out.fs
           /\ manifest' = out.mf
           /\ log' = out.log
           /\ queue' = NotifyWrites(queue, out.wrote)
    /\ running' = RemoveAt(running, i)
    /\ UNCHANGED <<sync, humanDirMade, watcher, watched, mainpc,
                   dispatcher, edits, touched, last, late>>

\* ------------------------------------------------------- the outside
\* 100ms pass
Tick ==
    /\ Alive /\ watcher = "open"
    /\ gmChanged' = Shift(gmChanged)
    /\ humanChanged' = Shift(humanChanged)
    /\ queue' = [i \in 1..Len(queue) |-> [queue[i] EXCEPT !.at = Shift(@)]]
    /\ UNCHANGED <<lastGMFileChanged, lastHumanFileChanged, files,
                   humanDirMade, manifest, log, watcher, watched, mainpc,
                   dispatcher, running, edits, history>>

ContentsFor(path) ==
    IF Ext(path) = "gmo" THEN {Txt(d) : d \in Docs} \cup {Garbage}
    ELSE IF Ext(path) = "gmx" THEN {Xml(d) : d \in Docs}
    ELSE IF Ext(path) = "gml" THEN {Gml(d) : d \in Docs}
    ELSE {Txt(1)}

\* the paths the outside writes, and those to which it does something else
EditPaths == {EnemyGmo, BossGmo, NotesTxt, HumanFooGml, HumanBarGml,
              EnemyGmx, GMFooGml}

OtherPaths == {EnemyGmo}

\* the paths the outside writes while main starts up and shuts down
LifePaths == {EnemyGmo, EnemyGmx}

\* the paths whose writes the watcher may report twice
DupPaths == {EnemyGmo, EnemyGmx}

\* one notification, or two of which the second repeats the first
NotifyTimes(q, path, op, n) ==
    IF n = 1 THEN Notify(q, path, op, "ext", FALSE)
    ELSE Notify(Notify(q, path, op, "ext", FALSE), path, op, "ext",
                Len(q) < MaxQueue)

\* an editor or GameMaker writes a file; the watcher reports the write once
\* or twice
ExternalWrite(path, content, n) ==
    /\ Alive /\ watcher = "open"
    /\ path.dir = humanDir => humanDirMade
    /\ edits < MaxEdits
    /\ edits' = edits + 1
    /\ files' = [files EXCEPT ![path] = content]
    /\ queue' = NotifyTimes(queue, path, {"Write"}, n)
    /\ UNCHANGED <<sync, humanDirMade, manifest, log, watcher, watched,
                   mainpc, dispatcher, running, history>>

OtherOps == {{"Create"}, {"Remove"}, {"Chmod"}}

\* something other than a write happens to a file
ExternalOther(path, op) ==
    /\ Alive /\ watcher = "open"
    /\ path.dir = humanDir => humanDirMade
    /\ edits < MaxEdits
    /\ edits' = edits + 1
    /\ files' = IF op = {"Remove"} THEN [files EXCEPT ![path] = Absent]
                ELSE IF op = {"Create"} /\ ~Exists(files, path)
                THEN [files EXCEPT ![path] = Empty]
                ELSE files
    /\ queue' = Notify(queue, path, op, "ext", FALSE)
    /\ UNCHANGED <<sync, humanDirMade, manifest, log, watcher, watched,
                   mainpc, dispatcher, running, history>>

\* ---------------------------------------------------------------- main
\* os.MkdirAll(humanDir, os.ModePerm)
MkdirAll(ok) ==
    /\ mainpc = "mkdir"
    /\ IF ok
       THEN /\ humanDirMade' = TRUE
            /\ mainpc' = "walkObjects"
            /\ UNCHANGED log
       ELSE /\ log' = <<Line("Error creating gm_txt directory", "mkdir")>>
            /\ mainpc' = "returned"
            /\ UNCHANGED humanDirMade
    /\ UNCHANGED <<sync, files, manifest, queue, watcher, watched,
                   dispatcher, running, edits, history>>

\* filepath.Walk visits a directory in lexical order
ObjectsDirListing == <<BossGmx, EnemyGmx, ReadmeTxt>>

ScriptsDirListing == <<GMFooGml>>

Walked(err, fs, lg) == [err |-> err, fs |-> fs, log |-> lg]

\* the name and the mirror path the initial walk derives for a GM object
InitialResourceName(path) == TrimObjectSuffix(Base(path))

InitialDestPath(path) ==
    Join(humanDir, InitialResourceName(path) \o <<"gmo">>)

\* filepath.Walk(gmObjectsDir, f): the first error ends the walk
RECURSIVE WalkObjects(_, _, _, _)
WalkObjects(listing, fs, lg, io) ==
    IF listing = <<>> THEN Walked(NoError, fs, lg)
    ELSE LET path == Head(listing)
             destPath == InitialDestPath(path)
             r == GMObjectFileToHumanObjectFile(fs, path, destPath, io, TRUE)
         IN  IF ~Exists(fs, path) \/ ~HasObjectSuffix(path)
             THEN WalkObjects(Tail(listing), fs, lg, io)
             ELSE IF r.err # NoError
             THEN Walked(r.err, r.fs,
                         Append(lg, Line("Error initially translating", r.err)))
             ELSE WalkObjects(Tail(listing), r.fs, lg, io)

\* filepath.Walk(gmScriptsDir, f)
RECURSIVE WalkScripts(_, _, _, _)
WalkScripts(listing, fs, lg, io) ==
    IF listing = <<>> THEN Walked(NoError, fs, lg)
    ELSE LET path == Head(listing)
             destPath == Join(humanDir, Base(path))
             r == cp(fs, destPath, path, io, TRUE)
         IN  IF ~Exists(fs, path) \/ Ext(path) # "gml"
             THEN WalkScripts(Tail(listing), fs, lg, io)
             ELSE IF r.err # NoError THEN Walked(r.err, r.fs, lg)
             ELSE WalkScripts(Tail(listing), r.fs, lg, io)

\* an initial translation that reports a failed walk and goes on
InitialObjectsContinuing(io) ==
    /\ mainpc = "walkObjects"
    /\ LET w == WalkObjects(ObjectsDirListing, files, <<>>, io)
       IN  /\ files' = w.fs
           /\ log' = IF w.err # NoError
                     THEN Append(w.log,
                                 Line("Error during initial translation",
                                      w.err))
                     ELSE log
    /\ mainpc' = "walkScripts"
    /\ UNCHANGED <<sync, humanDirMade, manifest, queue, watcher, watched,
                   dispatcher, running, edits, history>>

\* the initial translation of all GM objects
InitialObjects(io) ==
    /\ mainpc = "walkObjects"
    /\ LET w == WalkObjects(ObjectsDirListing, files, <<>>, io)
       IN  /\ files' = w.fs
           /\ IF w.err # NoError
              THEN /\ log' = Append(w.log,
                                    Line("Error during initial translation",
                                         w.err))
                   /\ mainpc' = "returned"
              ELSE /\ UNCHANGED log
                   /\ mainpc' = "walkScripts"
    /\ UNCHANGED <<sync, humanDirMade, manifest, queue, watcher, watched,
                   dispatcher, running, edits, history>>

\* the initial copy of all GM scripts
InitialScripts(io) ==
    /\ mainpc = "walkScripts"
    /\ LET w == WalkScripts(ScriptsDirListing, files, <<>>, io)
       IN  /\ files' = w.fs
           /\ IF w.err # NoError
              THEN /\ log' = Append(w.log,
                                    Line("Error during initial copying", w.err))
                   /\ mainpc' = "returned"
              ELSE /\ UNCHANGED log
                   /\ mainpc' = "newWatcher"
    /\ UNCHANGED <<sync, humanDirMade, manifest, queue, watcher, watched,
                   dispatcher, running, edits, history>>

\* fsnotify.NewWatcher()
NewWatcher(ok) ==
    /\ mainpc = "newWatcher"
    /\ IF ok
       THEN /\ watcher' = "open"
            /\ mainpc' = "go"
            /\ UNCHANGED log
       ELSE /\ log' = <<Line("Error creating fsnotify watcher", "watcher")>>
            /\ mainpc' = "returned"
            /\ UNCHANGED watcher
    /\ UNCHANGED <<sync, files, humanDirMade, manifest, queue, watched,
                   dispatcher, running, edits, history>>

\* go func () { for { select { ... } } }()
StartDispatcher ==
    /\ mainpc = "go"
    /\ dispatcher' = "running"
    /\ mainpc' = "add"
    /\ UNCHANGED <<sync, files, humanDirMade, manifest, log, queue,
                   watcher, watched, running, edits, history>>

AddFailures == {{}, {humanDir}}

RECURSIVE AddErrors(_, _)
AddErrors(lg, failed) ==
    IF failed = {} THEN lg
    ELSE LET d == CHOOSE x \in failed : TRUE
         IN  AddErrors(Append(lg, Line("Error assigning dir to fsnotify watcher",
                                       d)),
                       failed \ {d})

\* the three watcher.Add calls, then the stdin goroutine is started
AddWatches(failed) ==
    /\ mainpc = "add"
    /\ watched' = WatchedRoots \ failed
    /\ log' = IF failed = {} THEN log ELSE AddErrors(<<>>, failed)
    /\ mainpc' = "listening"
    /\ UNCHANGED <<sync, files, humanDirMade, manifest, queue, watcher,
                   dispatcher, running, edits, history>>

\* the stdin goroutine reads a line and prints the help it asks for: it
\* uses none of the engine's state
CommandInput ==
    /\ mainpc \in {"listening", "removing", "closing"}
    /\ UNCHANGED <<sync, files, humanDirMade, manifest, log, queue,
                   watcher, watched, mainpc, dispatcher, running, edits, history>>

\* <-sigchan
Signal ==
    /\ mainpc = "listening"
    /\ mainpc' = "removing"
    /\ UNCHANGED <<sync, files, humanDirMade, manifest, log, queue,
                   watcher, watched, dispatcher, running, edits, history>>

\* os.RemoveAll(humanDir)
RemoveAll(ok) ==
    /\ mainpc = "removing"
    /\ mainpc' = "closing"
    /\ IF ok
       THEN /\ files' = [p \in Paths |->
                            IF p.dir = humanDir THEN Absent ELSE files[p]]
            /\ humanDirMade' = FALSE
            /\ watched' = watched \ {humanDir}
            /\ UNCHANGED log
       ELSE /\ log' = <<Line("Error removing gm_txt directory", "remove")>>
            /\ UNCHANGED <<files, humanDirMade, watched>>
    /\ UNCHANGED <<sync, manifest, queue, watcher, dispatcher, running,
                   edits, history>>

\* the deferred watcher.Close(), and main returns: the process is over
Return ==
    /\ mainpc = "closing"
    /\ watcher' = "closed"
    /\ dispatcher' = "dead"
    /\ mainpc' = "returned"
    /\ UNCHANGED <<sync, files, humanDirMade, manifest, log, queue,
                   watched, running, edits, history>>

\* ------------------------------------------------------ specifications
InitialManifest ==
    [objects |-> <<Entry(<<"Enemy">>, "object")>>,
     scripts |-> <<Entry(<<"foo", "gml">>, "script")>>]

InitCommon ==
    /\ gmChanged = ZeroTime
    /\ humanChanged = ZeroTime
    /\ lastGMFileChanged = NoPath
    /\ lastHumanFileChanged = NoPath
    /\ manifest = InitialManifest
    /\ log = <<>>
    /\ queue = <<>>
    /\ running = <<>>
    /\ edits = 0
    /\ touched = {}
    /\ last = [name |-> NoPath, op |-> {}, origin |-> "", passed |-> FALSE]
    /\ late = FALSE


\* the process starts in a project with one object and one script
Init ==
    /\ InitCommon
    /\ \E c \in {Xml(1), Garbage} :
          files = [p \in Paths |->
                      IF p = EnemyGmx THEN c
                      ELSE IF p = GMFooGml THEN Gml(1) ELSE Absent]
    /\ humanDirMade = FALSE
    /\ watcher = "none"
    /\ watched = {}
    /\ mainpc = "mkdir"
    /\ dispatcher = "none"

Next ==
    \/ \E ok \in BOOLEAN : MkdirAll(ok)
    \/ \E io \in IOOutcomes : InitialObjects(io)
    \/ \E io \in IOOutcomes : InitialScripts(io)
    \/ \E ok \in BOOLEAN : NewWatcher(ok)
    \/ StartDispatcher
    \/ \E failed \in AddFailures : AddWatches(failed)
    \/ CommandInput
    \/ Signal
    \/ \E ok \in BOOLEAN : RemoveAll(ok)
    \/ Return
    \/ Dispatch
    \/ WatcherError
    \/ \E i \in 1..Len(running), io \in IOOutcomes : Translate(i, io)
    \/ Tick
    \/ \E p \in LifePaths, n \in 1..2 : \E c \in ContentsFor(p) :
          ExternalWrite(p, c, n)

Spec == Init /\ [][Next]_vars

\* the engine once main listens: the state the startup leaves, and the steps
\* of the dispatch goroutine and of the outside
InitSync ==
    /\ InitCommon
    /\ files = [p \in Paths |->
                   IF p = EnemyGmx THEN Xml(1)
                   ELSE IF p = EnemyGmo THEN Txt(1)
                   ELSE IF p \in {GMFooGml, HumanFooGml} THEN Gml(1)
                   ELSE Absent]
    /\ humanDirMade = TRUE
    /\ watcher = "open"
    /\ watched = WatchedRoots
    /\ mainpc = "listening"
    /\ dispatcher = "running"

NextSync ==
    \/ Dispatch
    \/ \E i \in 1..Len(running), io \in IOOutcomes : Translate(i, io)
    \/ Tick
    \/ \E p \in EditPaths : \E c \in ContentsFor(p) : ExternalWrite(p, c, 1)
    \/ \E p \in OtherPaths, op \in OtherOps : ExternalOther(p, op)

SpecSync == InitSync /\ [][NextSync]_vars

\* the same engine under a watcher that may report one write twice
NextDup ==
    \/ Dispatch
    \/ \E i \in 1..Len(running), io \in IOOutcomes : Translate(i, io)
    \/ Tick
    \/ \E p \in DupPaths, n \in 1..2 : \E c \in ContentsFor(p) :
          ExternalWrite(p, c, n)

SpecDup == InitSync /\ [][NextDup]_vars

\* ---------------------------------------------------------- properties
\* the steps of the dispatch goroutine, told by what they do to the state
Receiving == queue # <<>> /\ queue' = Tail(queue)

Called == Len(running') > Len(running)

Returned == Len(running') < Len(running)

ReceivingWrite == Receiving /\ Head(queue).op = {"Write"}

\* the notification being received was caused by a write of the engine that
\* completed at most reverbSpacing ago
Timely(ev) == ev.origin = "eng" /\ now - ev.at <= reverbSpacing

\* C1: reverb suppression.  A write notification caused by a translation or
\* copy of the other side, received at most reverbSpacing after that
\* translation completed, starts no translation and no copy, whatever time
\* the translation took.
C1_ReverbSuppression ==
    [][(ReceivingWrite /\ Timely(Head(queue))) => ~Called]_vars

\* C2: dedup suppression.  Of two write notifications emitted together for
\* one path, the second starts no translation when the first has started
\* one, whatever time the first translation takes.
C2_DedupSuppression ==
    [][(ReceivingWrite /\ Head(queue).twin
        /\ last.passed /\ last.name = Head(queue).name) => ~Called]_vars

\* C3: no translation loop.  After one write from the outside, as long as
\* every notification caused by a write of the engine has been received
\* within reverbSpacing of that write, no such notification has passed the
\* timing check: the echo is never translated back.
C3_NoTranslationLoop ==
    (edits <= 1 /\ ~late /\ last.origin = "eng") => ~last.passed

\* C4: SyncState of a side changes only in the step in which a translation
\* or copy triggered from that side completes without error.
HumanStamped ==
    \/ lastHumanFileChanged' # lastHumanFileChanged
    \/ humanChanged' \notin {humanChanged, Shift(humanChanged)}

GMStamped ==
    \/ lastGMFileChanged' # lastGMFileChanged
    \/ gmChanged' \notin {gmChanged, Shift(gmChanged)}

SucceededStep(handlers) ==
    /\ Returned
    /\ running[1].kind \in handlers
    /\ log'[1].err = NoError

C4_StampAfterSuccess ==
    [][/\ HumanStamped => SucceededStep(HumanHandlers)
       /\ GMStamped => SucceededStep(GMHandlers)]_vars

\* C5: new object from a mirror edit.  When translateHumanObject returns
\* for a mirror object file that parses and has no native counterpart, the
\* native object file exists and the group "objects" of the manifest names
\* the object exactly once.
EntryCount(entries, name) ==
    Cardinality({i \in 1..Len(entries) : entries[i].name = name})

NewObjectReturns ==
    /\ Returned
    /\ running[1].kind = "translateHumanObject"
    /\ ~Exists(files, GMObjPathOf(running[1].name))
    /\ Exists(files, running[1].name)
    /\ ParseOk(files[running[1].name])

C5_NewObjectFromMirror ==
    [][NewObjectReturns =>
         /\ Exists(files', GMObjPathOf(running[1].name))
         /\ EntryCount(manifest'.objects,
                       SplitFirst(Base(running[1].name))) = 1]_vars

\* C6: malformed mirror edit.  When translateHumanObject returns for a
\* mirror file that does not parse and a native counterpart that decodes,
\* the parse error is what it printed and the native file has the content
\* it had before.
MalformedReturns ==
    /\ Returned
    /\ running[1].kind = "translateHumanObject"
    /\ Exists(files, GMObjPathOf(running[1].name))
    /\ DecodeOk(files[GMObjPathOf(running[1].name)])
    /\ Exists(files, running[1].name)
    /\ ~ParseOk(files[running[1].name])

C6_MalformedMirrorEdit ==
    [][MalformedReturns =>
         /\ files'[GMObjPathOf(running[1].name)]
               = files[GMObjPathOf(running[1].name)]
         /\ log' = <<Line("error", "parse")>>]_vars

C6_Witness ==
    /\ log = <<Line("error", "parse")>>
    /\ files[EnemyGmo] = Garbage
    /\ files[EnemyGmx] = Xml(1)
    /\ last.name = EnemyGmo /\ last.passed
    /\ running = <<>>

\* C7: unrelated file ignored.  Receiving a write notification for a path
\* in the mirror directory that has neither the extension of a mirror
\* object nor that of a script, or for a path in no watched directory,
\* starts no handler, prints nothing, and leaves the files, the manifest and
\* SyncState as they were.
Unrelated(ev) ==
    \/ ev.name.dir = humanDir /\ Ext(ev.name) \notin {"gmo", "gml"}
    \/ ev.name.dir \notin WatchedRoots

C8_OnlyWrites ==
    [][(Receiving /\ Head(queue).op # {"Write"}) =>
         UNCHANGED <<sync, files, manifest, log, running>>]_vars

C8_Witness ==
    /\ last.name = EnemyGmo /\ last.op = {"Create"} /\ ~last.passed
    /\ queue = <<>> /\ running = <<>>

\* C9: sequential dispatch.  Once the watcher exists at most one handler is
\* between its call and its return, only the dispatch goroutine has used
\* SyncState, and SyncState changes only in a step that receives a
\* notification.
C9_SequentialDispatch ==
    /\ [](watcher # "none" =>
            /\ Len(running) <= 1
            /\ touched \subseteq {"dispatch"})
    /\ [][(HumanStamped \/ GMStamped) => Receiving]_vars

C9_Witness ==
    /\ Len(running) = 1 /\ queue # <<>>
    /\ touched = {"dispatch"}
    /\ mainpc = "listening"

\* C10: orderly shutdown.  main starts to remove the mirror directory only
\* when the watcher is closed and no handler is between its call and its
\* return.
C10_OrderlyShutdown ==
    [][(mainpc = "removing" /\ mainpc' # "removing") =>
         (watcher = "closed" /\ running = <<>>)]_vars

\* C11: the engine stays live across errors.  The dispatch goroutine is
\* running in every state; whenever no handler is running and a notification
\* waits, the loop can receive it; a step in which a handler prints an error
\* is the return of that handler; a handler is called only in a step that
\* receives a notification, one handler per notification; and a write
\* notification for which a handler is picked and the timing check passes
\* does call it.
Failed == log # <<>> /\ log[1].err # NoError

C11_LiveAcrossErrors ==
    /\ [](dispatcher = "running"
          /\ ((running = <<>> /\ queue # <<>>) => ENABLED Dispatch))
    /\ [][/\ (log' # log /\ Failed') => Returned
          /\ Called => (Receiving /\ Len(running') = Len(running) + 1)
          /\ (ReceivingWrite /\ Handler(Head(queue)) # ""
                 /\ TimingOk(Head(queue))) => Called]_vars

C11_Witness ==
    /\ Failed
    /\ Len(running) = 1
    /\ last.passed /\ last.name = running[1].name

\* C12: startup abort.  Once main has reported that it could not create the
\* gm_txt directory, or that the initial translation of the GM objects
\* failed, main has returned, no watcher was ever created, the dispatch
\* goroutine was never started and no notification was ever received.
StartupFailed ==
    /\ log # <<>>
    /\ log[Len(log)].msg \in {"Error creating gm_txt directory",
                               "Error during initial translation"}

C12_StartupAbort ==
    StartupFailed =>
        /\ mainpc = "returned"
        /\ watcher = "none" /\ watched = {}
        /\ dispatcher = "none"
        /\ queue = <<>> /\ running = <<>>
        /\ last.op = {} /\ touched = {}

C12_Witness ==
    /\ log = <<Line("Error initially translating", "decode"),
               Line("Error during initial translation", "decode")>>
    /\ files[EnemyGmx] = Garbage
    /\ humanDirMade
    /\ mainpc = "returned"

\* C13: only two classes of failure are fatal.  main returns only after the
\* stop signal, or having reported that it could not create the gm_txt
\* directory or that the initial pass over the objects and scripts failed;
\* no other failure ends the process.
InitialPassFailed ==
    /\ log # <<>>
    /\ log[Len(log)].msg \in {"Error creating gm_txt directory",
                               "Error during initial translation",
                               "Error during initial copying"}

C13_OnlyTwoFatalClasses ==
    [][(mainpc # "returned" /\ mainpc' = "returned") =>
         (mainpc = "closing" \/ InitialPassFailed')]_vars

\* the timing checks applied to every value of the four fields of SyncState:
\* a write notification waits, and the dispatch goroutine handles it
Times == Old..now

TimingPaths == {EnemyGmo, HumanFooGml, EnemyGmx, GMFooGml}

InitTiming ==
    /\ gmChanged \in Times
    /\ humanChanged \in Times
    /\ lastGMFileChanged \in {NoPath, EnemyGmx, GMFooGml}
    /\ lastHumanFileChanged \in {NoPath, EnemyGmo, HumanFooGml}
    /\ files = [p \in Paths |->
                   IF p = EnemyGmx THEN Xml(1)
                   ELSE IF p = EnemyGmo THEN Txt(1)
                   ELSE IF p \in {GMFooGml, HumanFooGml} THEN Gml(1)
                   ELSE Absent]
    /\ humanDirMade = TRUE
    /\ manifest = InitialManifest
    /\ log = <<>>
    /\ \E p \in TimingPaths :
          queue = <<Event(p, {"Write"}, "ext", Old, FALSE)>>
    /\ watcher = "open"
    /\ watched = WatchedRoots
    /\ mainpc = "listening"
    /\ dispatcher = "running"
    /\ running = <<>>
    /\ edits = 0
    /\ touched = {}
    /\ last = [name |-> NoPath, op |-> {}, origin |-> "", passed |-> FALSE]
    /\ late = FALSE

NextTiming ==
    \/ Dispatch
    \/ \E i \in 1..Len(running), io \in IOOutcomes : Translate(i, io)
    \/ Tick

SpecTiming == InitTiming /\ [][NextTiming]_vars

\* C14: the decision of the timing check is that of its reference.  For a
\* path P of side S handled now, the check passes exactly when it is not
\* the case that the other side changed at most reverbSpacing ago, and not
\* the case that P is the path S changed last and S changed at most
\* dedupSpacing ago; and a write notification starts its handler exactly
\* when the reference says pass.
ReferencePass(oppositeTime, ownTime, ownPath, P) ==
    /\ ~(now - oppositeTime <= reverbSpacing)
    /\ ~(P = ownPath /\ now - ownTime <= dedupSpacing)

HumanReference(P) ==
    ReferencePass(gmChanged, humanChanged, lastHumanFileChanged, P)

GMReference(P) ==
    ReferencePass(humanChanged, gmChanged, lastGMFileChanged, P)

C14_SuppressorReference ==
    /\ [](\A P \in Paths :
            /\ humanFileTimingOk(P) <=> HumanReference(P)
            /\ gmFileTimingOk(P) <=> GMReference(P))
    /\ [][ReceivingWrite =>
            /\ Head(queue).name \in {EnemyGmo, HumanFooGml} =>
                  (Called <=> HumanReference(Head(queue).name))
            /\ Head(queue).name \in {EnemyGmx, GMFooGml} =>
                  (Called <=> GMReference(Head(queue).name))]_vars

\* the boundary: an event handled exactly reverbSpacing after the other
\* side changed has been suppressed
C14_Witness ==
    /\ gmChanged = now - reverbSpacing
    /\ lastHumanFileChanged = NoPath
    /\ last.name = EnemyGmo /\ last.op = {"Write"} /\ ~last.passed
    /\ running = <<>> /\ queue = <<>>

\* the engine when the user edits one mirror file twice: the notification of
\* the first edit waits, and the second edit comes at any later moment
InitEdits ==
    /\ gmChanged = ZeroTime
    /\ humanChanged = ZeroTime
    /\ lastGMFileChanged = NoPath
    /\ lastHumanFileChanged = NoPath
    /\ \E c \in ContentsFor(EnemyGmo) :
          files = [p \in Paths |->
                      IF p = EnemyGmx THEN Xml(1)
                      ELSE IF p = EnemyGmo THEN c
                      ELSE IF p \in {GMFooGml, HumanFooGml} THEN Gml(1)
                      ELSE Absent]
    /\ humanDirMade = TRUE
    /\ manifest = InitialManifest
    /\ log = <<>>
    /\ queue = <<Event(EnemyGmo, {"Write"}, "ext", Old, FALSE)>>
    /\ watcher = "open"
    /\ watched = WatchedRoots
    /\ mainpc = "listening"
    /\ dispatcher = "running"
    /\ running = <<>>
    /\ edits = 0
    /\ touched = {}
    /\ last = [name |-> NoPath, op |-> {}, origin |-> "", passed |-> FALSE]
    /\ late = FALSE

NextEdits ==
    \/ Dispatch
    \/ \E i \in 1..Len(running), io \in IOOutcomes : Translate(i, io)
    \/ Tick
    \/ \E c \in ContentsFor(EnemyGmo) : ExternalWrite(EnemyGmo, c, 1)

SpecEdits == InitEdits /\ [][NextEdits]_vars

\* C15: back-to-back edits.  The notification of the user's second edit of
\* a mirror file, received more than dedupSpacing after the first edit of
\* that file was handled, starts a translation, whatever has become of the
\* echo of the first translation; no write from the outside has happened on
\* the native side.
SecondEdit(ev) ==
    /\ ev.origin = "ext" /\ edits = 1
    /\ lastHumanFileChanged = ev.name
    /\ Since(humanChanged) > dedupSpacing

C15_BackToBackEdits ==
    [][(ReceivingWrite /\ SecondEdit(Head(queue))) => Called]_vars

\* C16: when the project file is updated.  A handler calls
\* AppendResourceToGMProject exactly when it is a mirror-side handler and
\* the GM file of the resource did not exist when it began; the call is for
\* the group "objects" and the kind "object" from translateHumanObject, for
\* the group "scripts" and the kind "script" from copyHumanScript; and no
\* other step changes the project file.
NativeCounterpart(call) ==
    IF call.kind = "translateHumanObject" THEN GMObjPathOf(call.name)
    ELSE Join(gmScriptsDir, Base(call.name))

\* the second line a handler prints is the outcome of the update
UpdaterInvoked == Returned /\ Len(log') = 2

UpdatedGroup(group, other, name, kind) ==
    /\ manifest'[other] = manifest[other]
    /\ \/ manifest'[group] = manifest[group] /\ HasEntry(manifest[group], name)
       \/ manifest'[group] = Append(manifest[group], Entry(name, kind))

C16_ManifestUpdaterInvocation ==
    [][/\ manifest' # manifest => UpdaterInvoked
       /\ Returned =>
            /\ UpdaterInvoked <=>
                  /\ running[1].kind \in HumanHandlers
                  /\ ~Exists(files, NativeCounterpart(running[1]))
            /\ (UpdaterInvoked /\ running[1].kind = "translateHumanObject")
                  => UpdatedGroup("objects", "scripts",
                                  SplitFirst(Base(running[1].name)), "object")
            /\ (UpdaterInvoked /\ running[1].kind = "copyHumanScript")
                  => UpdatedGroup("scripts", "objects",
                                  Base(running[1].name), "script")]_vars

C16_Witness ==
    /\ manifest.scripts = Append(InitialManifest.scripts,
                                 Entry(Base(HumanBarGml), "script"))
    /\ manifest.objects = InitialManifest.objects
    /\ log = <<Line("Copied", NoError), Line("Project file updated", NoError)>>
    /\ Exists(files, GMBarGml)

\* the engine on GM object files of several names: one of them has just been
\* written, and the dispatch goroutine handles the notification
BigBossGmx == Join(gmObjectsDir, <<"Big", "Boss", "object", "gmx">>)

PlainGmx == Join(gmObjectsDir, <<"plain", "gmx">>)

ObjectFiles == {EnemyGmx, BigBossGmx, PlainGmx}

NamePaths ==
    ObjectFiles
        \cup {HumanObjPathOf(p) : p \in ObjectFiles}
        \cup {InitialDestPath(p) : p \in ObjectFiles}
        \cup {GMObjPathOf(HumanObjPathOf(p)) : p \in ObjectFiles}

InitNames ==
    /\ gmChanged = ZeroTime
    /\ humanChanged = ZeroTime
    /\ lastGMFileChanged = NoPath
    /\ lastHumanFileChanged = NoPath
    /\ \E d \in Docs :
          files = [p \in NamePaths |->
                      IF p \in ObjectFiles THEN Xml(d) ELSE Absent]
    /\ humanDirMade = TRUE
    /\ manifest = InitialManifest
    /\ log = <<>>
    /\ \E p \in ObjectFiles :
          queue = <<Event(p, {"Write"}, "ext", Old, FALSE)>>
    /\ watcher = "open"
    /\ watched = WatchedRoots
    /\ mainpc = "listening"
    /\ dispatcher = "running"
    /\ running = <<>>
    /\ edits = 0
    /\ touched = {}
    /\ last = [name |-> NoPath, op |-> {}, origin |-> "", passed |-> FALSE]
    /\ late = FALSE

NextNames ==
    \/ Dispatch
    \/ \E i \in 1..Len(running), io \in IOOutcomes : Translate(i, io)
    \/ Tick

SpecNames == InitNames /\ [][NextNames]_vars

\* C17: the path mapping is consistent.  When translateGMObject is called
\* for a file of the objects directory, the file has the suffix
\* ".object.gmx", so that the name of the object is the file name without
\* it; the mirror path the handler derives is the one the initial walk
\* derives for the file; and the GM path translateHumanObject derives from
\* that mirror path is the path of the file.
C17_PathMappingConsistent ==
    [][(Called /\ Head(queue).name.dir = gmObjectsDir) =>
         LET path == Head(queue).name
         IN  /\ HasObjectSuffix(path)
             /\ SplitFirst(Base(path)) = InitialResourceName(path)
             /\ HumanObjPathOf(path) = InitialDestPath(path)
             /\ GMObjPathOf(HumanObjPathOf(path)) = path]_vars

\* C18: a suppressed event changes nothing.  Receiving a write notification
\* for which a handler is picked and the timing check says no leaves
\* SyncState, the files, the project file, the printed lines and the running
\* handlers as they were.
Suppressed(ev) == Handler(ev) # "" /\ ~TimingOk(ev)

C18_SuppressedChangesNothing ==
    [][(ReceivingWrite /\ Suppressed(Head(queue))) =>
         UNCHANGED <<sync, files, manifest, log, running>>]_vars

\* the second of two notifications has been rejected as a duplicate, a tick
\* after the first was handled
C18_Witness ==
    /\ last.name = EnemyGmo /\ last.op = {"Write"} /\ last.origin = "ext"
    /\ ~last.passed
    /\ lastHumanFileChanged = EnemyGmo
    /\ humanChanged = now - dedupSpacing
    /\ gmChanged = ZeroTime
    /\ running = <<>>

\* C19: manifest entries follow files.  Every entry of the project file that
\* was not there at the start names an object or a script whose GM file
\* exists; and a handler whose translation or copy failed has not called
\* AppendResourceToGMProject and has left the project file as it was.
Appended(group) ==
    {manifest[group][i] : i \in 1..Len(manifest[group])}
        \ {InitialManifest[group][i] : i \in 1..Len(InitialManifest[group])}

EntriesFollowFiles ==
    /\ \A e \in Appended("objects") :
          Exists(files, Join(gmObjectsDir, e.name \o <<"object", "gmx">>))
    /\ \A e \in Appended("scripts") :
          Exists(files, Join(gmScriptsDir, e.name))

C19_ManifestEntriesFollowFiles ==
    /\ []EntriesFollowFiles
    /\ [][(Returned /\ log'[1].err # NoError) =>
            (~UpdaterInvoked /\ manifest' = manifest)]_vars
====
